---- MODULE Spec2Model ----
(***************************************************************************)
(* NetLock.py: an HTTP front end that turns "open door" requests into      *)
(* RS485 packets written to a serial port.                                 *)
(*                                                                         *)
(* The model has two parts.                                                *)
(*   - The packet codec (RS485PacketBuilder), as operators over hex        *)
(*     strings (sequences of one-character strings) and byte sequences.    *)
(*   - The communicator (RS485Communicator), its background reconnect      *)
(*     thread, the request handler and the __main__ path, as threads that  *)
(*     take one step per access to the shared attribute self.ser.          *)
(*                                                                         *)
(* Threads are <<kind, n>>: <<"main", 0>>, the reconnect thread            *)
(* <<"sup", c>> of communicator c and the handler thread <<"req", r>> of   *)
(* request r.  Communicator 0 is the module-level one (line 178);          *)
(* communicator r >= 1 is the one request r constructs (line 190).         *)
(***************************************************************************)
EXTENDS Integers, Sequences, FiniteSets, TLC

(* Bounds of the model. *)
MaxReq == 1
MaxFails == 2
MaxAddrLen == 2
MaxDoor == 257
MaxNeg == 17

(***************************************************************************)
(* Packet codec                                                            *)
(***************************************************************************)
HexDigits == <<"0", "1", "2", "3", "4", "5", "6", "7",
               "8", "9", "a", "b", "c", "d", "e", "f">>

IsHexChar(ch) == \E i \in 1..16 : HexDigits[i] = ch

HexVal(ch) == (CHOOSE i \in 1..16 : HexDigits[i] = ch) - 1

RECURSIVE HexOf(_)
(* format(n, 'x') for n >= 0: the hex digits of n, no padding. *)
HexOf(n) == IF n < 16 THEN <<HexDigits[n + 1]>>
            ELSE HexOf(n \div 16) \o <<HexDigits[(n % 16) + 1]>>

(* f'{n:02x}': sign, then digits, zero-padded to a minimum width of 2. *)
Format02x(n) ==
    LET body == IF n < 0 THEN <<"-">> \o HexOf(-n) ELSE HexOf(n)
    IN  IF Len(body) >= 2 THEN body
        ELSE IF n < 0 THEN <<"-", "0">> \o Tail(body)
        ELSE <<"0">> \o body

(* bytes.fromhex(s) raises ValueError unless s is an even number of hex digits. *)
FromHexRaises(s) == Len(s) % 2 = 1 \/ \E i \in 1..Len(s) : ~IsHexChar(s[i])

FromHex(s) == [i \in 1..(Len(s) \div 2) |->
                  16 * HexVal(s[2 * i - 1]) + HexVal(s[2 * i])]

RECURSIVE Xor(_, _)
(* a ^ b on non-negative integers. *)
Xor(a, b) == IF a = 0 THEN b
             ELSE IF b = 0 THEN a
             ELSE 2 * Xor(a \div 2, b \div 2) + (((a % 2) + (b % 2)) % 2)

RECURSIVE calculate_lrc(_)
calculate_lrc(data) ==
    IF data = <<>> THEN 0
    ELSE Xor(calculate_lrc(SubSeq(data, 1, Len(data) - 1)), data[Len(data)])

OPEN == <<"0", "1", "1", "1">>

return_code == <<"0", "0", "0", "0">>

packet_length == <<"0", "0", "0", "7">>

(* The packet with the address put before the command code. *)
packet_body_address_first(address, command_code, door_number) ==
    packet_length \o address \o command_code \o return_code \o Format02x(door_number)

(* packet = packet_length + command_code + address + return_code + data_content *)
packet_body(address, command_code, door_number) ==
    packet_length \o command_code \o address \o return_code \o Format02x(door_number)

build_packet_raises(address, command_code, door_number) ==
    FromHexRaises(packet_body(address, command_code, door_number))

(* build_packet taking the checksum over the whole frame, start marker
   included. *)
build_packet_lrc_over_frame(address, command_code, door_number) ==
    LET packet == packet_body(address, command_code, door_number)
        lrc == calculate_lrc(FromHex(<<"f", "3">> \o packet))
    IN  <<"f", "3">> \o packet \o Format02x(lrc)

build_packet(address, command_code, door_number) ==
    LET packet == packet_body(address, command_code, door_number)
        lrc == calculate_lrc(FromHex(packet))
    IN  <<"f", "3">> \o packet \o Format02x(lrc)

(***************************************************************************)
(* Communicator, threads and environment                                   *)
(***************************************************************************)
VARIABLES
    ser,        \* ser[c]: self.ser of communicator c: None or a Serial object
    pc,         \* pc[t]: the line thread t is about to execute
    ret,        \* ret[t]: where t's current open_connection() call returns to
    failsLeft,  \* how many more port opens the transport will refuse
    req,        \* req[r]: the (address, door_number) of request r
    pkt,        \* pkt[r]: the local variable packet of request r
    written,    \* written[c]: the <<Serial object, bytes>> written through c
    alone,      \* alone[c]: no thread but c's supervisor has tried to open c's port
    checks,     \* checks[c]: health checks of c's supervisor, while alone and not yet open
    tries,      \* tries[c]: port opens tried by c's supervisor, while alone
    spCalled,   \* spCalled[r]: request r's send_packet found the Link not open (line 118)
    spAttempts, \* spAttempts[r]: port opens tried inside request r's send_packet call
    spFailed,   \* spFailed[r]: a port open tried inside r's send_packet call was refused
    wtries,     \* wtries[r]: calls of self.ser.write made for request r
    wfail,      \* wfail[r]: the write of request r raised SerialException
    startup,    \* outcome of the port open tried by the __main__ path, kept
                \* until the application starts
    args,       \* the arguments of a direct call of build_packet, if one is made
    result      \* what that call returned or raised

vars == <<ser, pc, ret, failsLeft, req, pkt, written,
          alone, checks, tries, spCalled, spAttempts, spFailed, wtries, wfail, startup,
          args, result>>

(* The state of a direct call of the packet builder; the server makes none. *)
codec == <<args, result>>

NoArgs == <<>>

NoResult == <<>>

(* The result of a call that raised ValueError: no hex string. *)
ValueError == <<"ValueError">>

Comms == 0..MaxReq

Reqs == 1..MaxReq

Main == <<"main", 0>>

Sup(c) == <<"sup", c>>

Req(r) == <<"req", r>>

Threads == {Main} \cup {Sup(c) : c \in Comms} \cup {Req(r) : r \in Reqs}

(* The communicator a thread works on. *)
Comm(t) == t[2]

(* The foreground thread of communicator c: the only one, besides c's
   reconnect thread, that holds a reference to c. *)
Fg(c) == IF c = 0 THEN Main ELSE Req(c)

None == <<"None", 0>>

(* The Serial object a successful serial.Serial(...) call of thread t returns,
   named after the thread that constructed it. *)
Serial(t) == t

(* The URL parameters a request may carry: <address>/<int:door_number>.
   <address> is any non-empty string without a slash: one byte, half a byte,
   two bytes.  <int:door_number> is any unsigned decimal number: one that
   formats to two hex digits, to three, to four. *)
Addresses == {<<"0", "1">>, <<"1">>, <<"0", "1", "0", "2">>}

Doors == {1, 256, 4096}

NoReq == [address |-> <<>>, door_number |-> 0]

(* serial.Serial.is_open: set by a successful open, cleared only by close(),
   which the program never calls. *)
is_open(h) == h # None

(* The whole condition "self.ser is open", read in one piece. *)
IsOpen(c) == ser[c] # None /\ is_open(ser[c])

(* sys.exit(1), or an exception that leaves the main thread, ends the process;
   the daemon threads end with it. *)
Running == pc[Main] \notin {"exit1", "crashed"}

(* The process as the interpreter has loaded the module: the module-level
   communicator constructed, its reconnect thread started, the main thread
   about to call open_connection (line 204). *)
Loaded ==
    /\ ser = [c \in Comms |-> None]
    /\ pc = [t \in Threads |->
                IF t = Main THEN "oc92"
                ELSE IF t = Sup(0) THEN "s103"
                ELSE IF t[1] = "sup" THEN "unborn" ELSE "idle"]
    /\ ret = [t \in Threads |-> IF t = Main THEN "m207" ELSE ""]
    /\ failsLeft = MaxFails
    /\ req = [r \in Reqs |-> NoReq]
    /\ pkt = [r \in Reqs |-> <<>>]
    /\ written = [c \in Comms |-> <<>>]
    /\ alone = [c \in Comms |-> TRUE]
    /\ checks = [c \in Comms |-> 0]
    /\ tries = [c \in Comms |-> 0]
    /\ spCalled = [r \in Reqs |-> FALSE]
    /\ spAttempts = [r \in Reqs |-> 0]
    /\ spFailed = [r \in Reqs |-> FALSE]
    /\ wtries = [r \in Reqs |-> 0]
    /\ wfail = [r \in Reqs |-> FALSE]
    /\ startup = "none"

Init == Loaded /\ args = NoArgs /\ result = NoResult

(* Where an exception exc that leaves thread t's current function ends up:
   the main thread dies of it, a reconnect thread dies of it, and
   open_door_api answers 500 (lines 194-199). *)
RaisedTo(t, exc) ==
    IF t = Main THEN "crashed"
    ELSE IF t[1] = "sup" THEN "s_dead"
    ELSE IF exc = "SerialException" THEN "r500s" ELSE "r500u"

Raise(t, exc) ==
    /\ pc' = [pc EXCEPT ![t] = RaisedTo(t, exc)]
    /\ ret' = [ret EXCEPT ![t] = ""]

Call(t, back) ==
    /\ pc' = [pc EXCEPT ![t] = "oc92"]
    /\ ret' = [ret EXCEPT ![t] = back]

Return(t) ==
    /\ pc' = [pc EXCEPT ![t] = ret[t]]
    /\ ret' = [ret EXCEPT ![t] = ""]

Goto(t, label) ==
    /\ pc' = [pc EXCEPT ![t] = label]
    /\ UNCHANGED ret

hist == <<alone, checks, tries, spCalled, spAttempts, spFailed, wtries, wfail, startup>>

(* ---- open_connection, lines 90-98 ---- *)

(* open_connection without its guard: it opens the port whatever self.ser is. *)
OcCheckAlwaysOpens(t) ==
    /\ Running /\ pc[t] = "oc92"
    /\ UNCHANGED codec
    /\ Goto(t, "oc94")
    /\ UNCHANGED <<ser, failsLeft, req, pkt, written, hist>>

(* line 92, first operand: self.ser is None *)
OcCheck(t) ==
    /\ Running /\ pc[t] = "oc92"
    /\ UNCHANGED codec
    /\ IF ser[Comm(t)] = None THEN Goto(t, "oc94") ELSE Goto(t, "oc92b")
    /\ UNCHANGED <<ser, failsLeft, req, pkt, written, hist>>

(* line 92, second operand: not self.ser.is_open *)
OcCheck2(t) ==
    /\ Running /\ pc[t] = "oc92b"
    /\ UNCHANGED codec
    /\ IF ser[Comm(t)] = None THEN Raise(t, "AttributeError")
       ELSE IF ~is_open(ser[Comm(t)]) THEN Goto(t, "oc94")
       ELSE Return(t)
    /\ UNCHANGED <<ser, failsLeft, req, pkt, written, hist>>

(* What a port open tried by thread t adds to the record of communicator c. *)
Tried(t, c) ==
    /\ spAttempts' = IF ret[t] = "sp120"
                     THEN [spAttempts EXCEPT ![c] = @ + 1] ELSE spAttempts
    /\ IF t = Sup(c)
       THEN /\ tries' = [tries EXCEPT ![c] = IF alone[c] THEN @ + 1 ELSE @]
            /\ UNCHANGED <<alone, checks>>
       ELSE /\ alone' = [alone EXCEPT ![c] = FALSE]
            /\ checks' = [checks EXCEPT ![c] = 0]
            /\ tries' = [tries EXCEPT ![c] = 0]

(* line 94, the call serial.Serial(self.port, self.baudrate, timeout=1):
   it returns a new open Serial object or raises SerialException *)
OcTry(t) ==
    /\ Running /\ pc[t] = "oc94"
    /\ UNCHANGED codec
    /\ Tried(t, Comm(t))
    /\ \/ /\ startup' = IF t = Main THEN "ok" ELSE startup
          /\ Goto(t, "oc94s")
          /\ UNCHANGED <<failsLeft, spFailed>>
       \/ /\ failsLeft > 0
          /\ failsLeft' = failsLeft - 1
          /\ startup' = IF t = Main THEN "fail" ELSE startup
          /\ spFailed' = IF ret[t] = "sp120"
                         THEN [spFailed EXCEPT ![Comm(t)] = TRUE] ELSE spFailed
          /\ Goto(t, "oc98")
    /\ UNCHANGED <<ser, req, pkt, written, spCalled, wtries, wfail>>

(* line 94, the assignment self.ser = <the new Serial object> *)
OcStore(t) ==
    /\ Running /\ pc[t] = "oc94s"
    /\ UNCHANGED codec
    /\ ser' = [ser EXCEPT ![Comm(t)] = Serial(t)]
    /\ Return(t)
    /\ UNCHANGED <<failsLeft, req, pkt, written, hist>>

(* open_connection letting the SerialException of a failed open go on to
   its caller. *)
OcExceptReraises(t) ==
    /\ Running /\ pc[t] = "oc98"
    /\ UNCHANGED codec
    /\ ser' = [ser EXCEPT ![Comm(t)] = None]
    /\ Raise(t, "SerialException")
    /\ UNCHANGED <<failsLeft, req, pkt, written, hist>>

(* lines 96-98: except serial.SerialException: self.ser = None *)
OcExcept(t) ==
    /\ Running /\ pc[t] = "oc98"
    /\ UNCHANGED codec
    /\ ser' = [ser EXCEPT ![Comm(t)] = None]
    /\ Return(t)
    /\ UNCHANGED <<failsLeft, req, pkt, written, hist>>

(* ---- reconnect, lines 100-106 ---- *)

(* reconnect with its test the wrong way round for a missing Serial object
   ("if self.ser and not self.ser.is_open"): it never opens a port that was
   never opened. *)
SupCheckNoReopen(c) ==
    /\ Running /\ pc[Sup(c)] = "s103"
    /\ UNCHANGED codec
    /\ checks' = [checks EXCEPT ![c] =
                     IF alone[c] /\ ser[c] = None THEN @ + 1 ELSE @]
    /\ IF ser[c] = None THEN Goto(Sup(c), "s103") ELSE Goto(Sup(c), "s103b")
    /\ UNCHANGED <<ser, failsLeft, req, pkt, written,
                   alone, tries, spCalled, spAttempts, spFailed, wtries, wfail, startup>>

(* line 103, first operand: not self.ser; line 105.  The loop comes back here
   after time.sleep(5), line 106. *)
SupCheck(c) ==
    /\ Running /\ pc[Sup(c)] = "s103"
    /\ UNCHANGED codec
    /\ checks' = [checks EXCEPT ![c] =
                     IF alone[c] /\ ser[c] = None THEN @ + 1 ELSE @]
    /\ IF ser[c] = None THEN Call(Sup(c), "s103") ELSE Goto(Sup(c), "s103b")
    /\ UNCHANGED <<ser, failsLeft, req, pkt, written,
                   alone, tries, spCalled, spAttempts, spFailed, wtries, wfail, startup>>

(* line 103, second operand: not self.ser.is_open; line 105 *)
SupCheck2(c) ==
    /\ Running /\ pc[Sup(c)] = "s103b"
    /\ UNCHANGED codec
    /\ IF ser[c] = None THEN Raise(Sup(c), "AttributeError")
       ELSE IF ~is_open(ser[c]) THEN Call(Sup(c), "s103")
       ELSE Goto(Sup(c), "s103")
    /\ UNCHANGED <<ser, failsLeft, req, pkt, written, hist>>

(* ---- __main__, lines 202-213 ---- *)

(* line 207, first operand: not communicator.ser; line 209 *)
MainCheck ==
    /\ pc[Main] = "m207"
    /\ UNCHANGED codec
    /\ IF ser[0] = None THEN Goto(Main, "exit1") ELSE Goto(Main, "m207b")
    /\ UNCHANGED <<ser, failsLeft, req, pkt, written, hist>>

(* line 207, second operand: not communicator.ser.is_open; line 209 or 213 *)
MainCheck2 ==
    /\ pc[Main] = "m207b"
    /\ UNCHANGED codec
    /\ IF ser[0] = None THEN Raise(Main, "AttributeError") /\ UNCHANGED startup
       ELSE IF ~is_open(ser[0]) THEN Goto(Main, "exit1") /\ UNCHANGED startup
       ELSE Goto(Main, "serving") /\ startup' = "none"
    /\ UNCHANGED <<ser, failsLeft, req, pkt, written,
                   alone, checks, tries, spCalled, spAttempts, spFailed, wtries, wfail>>

(* ---- open_door_api, lines 181-199 ---- *)

(* lines 190-191: a new communicator (ser = None, its reconnect thread
   started), then the call of open_connection() *)
StartRequest(r) ==
    /\ pc[Main] = "serving" /\ pc[Req(r)] = "idle"
    /\ UNCHANGED codec
    /\ r > 1 => pc[Req(r - 1)] # "idle"
    /\ \E a \in Addresses, d \in Doors :
          req' = [req EXCEPT ![r] = [address |-> a, door_number |-> d]]
    /\ pc' = [pc EXCEPT ![Req(r)] = "oc92", ![Sup(r)] = "s103"]
    /\ ret' = [ret EXCEPT ![Req(r)] = "r192"]
    /\ UNCHANGED <<ser, failsLeft, pkt, written, hist>>

(* line 192 and lines 169-170: build_packet; its ValueError is answered 500 *)
OpenDoor(r) ==
    /\ Running /\ pc[Req(r)] = "r192"
    /\ UNCHANGED codec
    /\ \/ /\ build_packet_raises(req[r].address, OPEN, req[r].door_number)
          /\ Raise(Req(r), "ValueError")
          /\ UNCHANGED pkt
       \/ /\ ~build_packet_raises(req[r].address, OPEN, req[r].door_number)
          /\ pkt' = [pkt EXCEPT ![r] =
                        build_packet(req[r].address, OPEN, req[r].door_number)]
          /\ Goto(Req(r), "sp116")
    /\ UNCHANGED <<ser, failsLeft, req, written, hist>>

(* ---- send_packet, lines 108-133 ---- *)

(* line 116, first operand: not self.ser; line 118 *)
SpCheck(r) ==
    /\ Running /\ pc[Req(r)] = "sp116"
    /\ UNCHANGED codec
    /\ IF ser[r] = None
       THEN Call(Req(r), "sp120") /\ spCalled' = [spCalled EXCEPT ![r] = TRUE]
       ELSE Goto(Req(r), "sp116b") /\ UNCHANGED spCalled
    /\ UNCHANGED <<ser, failsLeft, req, pkt, written,
                   alone, checks, tries, spAttempts, spFailed, wtries, wfail, startup>>

(* line 116, second operand: not self.ser.is_open; line 118 *)
SpCheck2(r) ==
    /\ Running /\ pc[Req(r)] = "sp116b"
    /\ UNCHANGED codec
    /\ IF ser[r] = None
       THEN Raise(Req(r), "AttributeError") /\ UNCHANGED spCalled
       ELSE IF ~is_open(ser[r])
       THEN Call(Req(r), "sp120") /\ spCalled' = [spCalled EXCEPT ![r] = TRUE]
       ELSE Goto(Req(r), "sp120") /\ UNCHANGED spCalled
    /\ UNCHANGED <<ser, failsLeft, req, pkt, written,
                   alone, checks, tries, spAttempts, spFailed, wtries, wfail, startup>>

(* send_packet dropping the command when the Link is still not open,
   instead of raising. *)
SpRecheckDrops(r) ==
    /\ Running /\ pc[Req(r)] = "sp120"
    /\ UNCHANGED codec
    /\ IF ser[r] = None THEN Goto(Req(r), "r200")
       ELSE Goto(Req(r), "sp120b")
    /\ UNCHANGED <<ser, failsLeft, req, pkt, written, hist>>

(* line 120, first operand; line 122 *)
SpRecheck(r) ==
    /\ Running /\ pc[Req(r)] = "sp120"
    /\ UNCHANGED codec
    /\ IF ser[r] = None THEN Raise(Req(r), "SerialException")
       ELSE Goto(Req(r), "sp120b")
    /\ UNCHANGED <<ser, failsLeft, req, pkt, written, hist>>

(* line 120, second operand; line 122 *)
SpRecheck2(r) ==
    /\ Running /\ pc[Req(r)] = "sp120b"
    /\ UNCHANGED codec
    /\ IF ser[r] = None THEN Raise(Req(r), "AttributeError")
       ELSE IF ~is_open(ser[r]) THEN Raise(Req(r), "SerialException")
       ELSE Goto(Req(r), "sp129")
    /\ UNCHANGED <<ser, failsLeft, req, pkt, written, hist>>

(* send_packet logging the SerialException of the write without re-raising. *)
SpWriteFailedSwallowed(r) ==
    /\ wfail' = [wfail EXCEPT ![r] = TRUE]
    /\ Goto(Req(r), "r200")
    /\ UNCHANGED <<ser, written>>

(* send_packet starting over after the SerialException of the write. *)
SpWriteFailedRetries(r) ==
    /\ wfail' = [wfail EXCEPT ![r] = TRUE]
    /\ Goto(Req(r), "sp116")
    /\ UNCHANGED <<ser, written>>

(* lines 131-133: self.ser.write raised SerialException; log and re-raise *)
SpWriteFailed(r) ==
    /\ wfail' = [wfail EXCEPT ![r] = TRUE]
    /\ Raise(Req(r), "SerialException")
    /\ UNCHANGED <<ser, written>>

(* The ASCII code of one hex digit. *)
Ord(ch) == IF HexVal(ch) < 10 THEN 48 + HexVal(ch) ELSE 87 + HexVal(ch)

(* A hex packet as ASCII-hex on the wire: the start marker as the byte 0xF3,
   then the hex characters of payload and checksum, one byte each. *)
AsciiHexWire(packet) ==
    <<243>> \o [i \in 1..(Len(packet) - 2) |-> Ord(packet[i + 2])]

(* send_packet putting the hex characters of the packet on the wire instead
   of the bytes they stand for. *)
SpWriteAsciiHex(r) ==
    /\ Running /\ pc[Req(r)] = "sp129"
    /\ UNCHANGED codec
    /\ IF FromHexRaises(pkt[r])
       THEN Raise(Req(r), "ValueError") /\ UNCHANGED <<ser, written, wtries, wfail>>
       ELSE IF ser[r] = None
       THEN Raise(Req(r), "AttributeError") /\ UNCHANGED <<ser, written, wtries, wfail>>
       ELSE /\ wtries' = [wtries EXCEPT ![r] = @ + 1]
            /\ \/ /\ written' = [written EXCEPT ![r] =
                                    Append(@, <<ser[r], AsciiHexWire(pkt[r])>>)]
                  /\ Goto(Req(r), "r200")
                  /\ UNCHANGED <<ser, wfail>>
               \/ SpWriteFailed(r)
    /\ UNCHANGED <<failsLeft, req, pkt, alone, checks, tries,
                   spCalled, spAttempts, spFailed, startup>>

(* lines 126-130: bytes.fromhex(packet), then self.ser.write(packet_bytes) *)
SpWrite(r) ==
    /\ Running /\ pc[Req(r)] = "sp129"
    /\ UNCHANGED codec
    /\ IF FromHexRaises(pkt[r])
       THEN Raise(Req(r), "ValueError") /\ UNCHANGED <<ser, written, wtries, wfail>>
       ELSE IF ser[r] = None
       THEN Raise(Req(r), "AttributeError") /\ UNCHANGED <<ser, written, wtries, wfail>>
       ELSE /\ wtries' = [wtries EXCEPT ![r] = @ + 1]
            /\ \/ /\ written' = [written EXCEPT ![r] =
                                    Append(@, <<ser[r], FromHex(pkt[r])>>)]
                  /\ Goto(Req(r), "r200")
                  /\ UNCHANGED <<ser, wfail>>
               \/ SpWriteFailed(r)
    /\ UNCHANGED <<failsLeft, req, pkt, alone, checks, tries,
                   spCalled, spAttempts, spFailed, startup>>

Next ==
    \/ \E t \in Threads : OcCheck(t)
    \/ \E t \in Threads : OcCheck2(t)
    \/ \E t \in Threads : OcTry(t)
    \/ \E t \in Threads : OcStore(t)
    \/ \E t \in Threads : OcExcept(t)
    \/ \E c \in Comms : SupCheck(c)
    \/ \E c \in Comms : SupCheck2(c)
    \/ MainCheck
    \/ MainCheck2
    \/ \E r \in Reqs : StartRequest(r)
    \/ \E r \in Reqs : OpenDoor(r)
    \/ \E r \in Reqs : SpCheck(r)
    \/ \E r \in Reqs : SpCheck2(r)
    \/ \E r \in Reqs : SpRecheck(r)
    \/ \E r \in Reqs : SpRecheck2(r)
    \/ \E r \in Reqs : SpWrite(r)

Spec == Init /\ [][Next]_vars

(* The steps of the reconnect thread of communicator c, and of the main
   thread.  They are operating-system threads: once started each keeps being
   scheduled.  Requests arrive, and are served, as the clients and the server
   please. *)
SupStep(c) ==
    \/ OcCheck(Sup(c)) \/ OcCheck2(Sup(c)) \/ OcTry(Sup(c))
    \/ OcStore(Sup(c)) \/ OcExcept(Sup(c))
    \/ SupCheck(c) \/ SupCheck2(c)

MainStep ==
    \/ OcCheck(Main) \/ OcCheck2(Main) \/ OcTry(Main)
    \/ OcStore(Main) \/ OcExcept(Main)
    \/ MainCheck \/ MainCheck2

FairSpec == Spec /\ WF_vars(MainStep) /\ \A c \in Comms : WF_vars(SupStep(c))

(***************************************************************************)
(* The packet builder called on its own                                    *)
(***************************************************************************)
(* build_packet is a static method: it takes any address string, any command
   code string and any integer.  The characters an address is made of here:
   low, high and mixed hex digits, and one character that is no hex digit. *)
AddrChars == {"0", "1", "f", "g"}

CodecAddresses ==
    UNION {[1..n -> AddrChars] : n \in 0..MaxAddrLen}

(* RS485Commands.OPEN, and one more 4-digit code. *)
CodecCommands == {OPEN, <<"a", "5", "f", "e">>}

(* Every integer around the one-byte range, and the first numbers that format
   to four and to five hex digits. *)
CodecDoors == ((-MaxNeg)..MaxDoor) \cup {4095, 4096, 65535, 65536}

CodecInit ==
    /\ Loaded
    /\ args \in [address : CodecAddresses,
                 command_code : CodecCommands,
                 door_number : CodecDoors]
    /\ result = NoResult

(* lines 53-72, up to the ValueError of bytes.fromhex at line 69 *)
BuildPacketRaises ==
    /\ result = NoResult
    /\ build_packet_raises(args.address, args.command_code, args.door_number)
    /\ result' = ValueError
    /\ UNCHANGED <<ser, pc, ret, failsLeft, req, pkt, written, hist, args>>

(* lines 53-72, to the return of line 72 *)
BuildPacketReturns ==
    /\ result = NoResult
    /\ ~build_packet_raises(args.address, args.command_code, args.door_number)
    /\ result' = build_packet(args.address, args.command_code, args.door_number)
    /\ UNCHANGED <<ser, pc, ret, failsLeft, req, pkt, written, hist, args>>

CodecNext == BuildPacketRaises \/ BuildPacketReturns

CodecSpec == CodecInit /\ [][CodecNext]_vars

(***************************************************************************)
(* Properties                                                              *)
(***************************************************************************)
Finished(r) == pc[Req(r)] \in {"r200", "r500s", "r500u"}

InOpenConnection(t) == pc[t] \in {"oc92", "oc92b", "oc94", "oc94s", "oc98"}

(* Past the "not open" check of line 92, up to the assignment to self.ser. *)
InOpenAttempt(t) == pc[t] \in {"oc94", "oc94s", "oc98"}

(* C1: on every communicator, at most one thread at a time is between the
   "Link is not open" check of open_connection and the assignment of the
   port open's result. *)
OpenAttemptsExclusive ==
    \A c \in Comms : Cardinality({t \in {Fg(c), Sup(c)} : InOpenAttempt(t)}) <= 1

(* C2: at most one open serial handle exists at any time; every request
   uses the Link of the one module-level communicator. *)
SingleLink == Cardinality({c \in Comms : IsOpen(c)}) <= 1

(* C3: the step in which the write of send_packet raises leaves the Link
   Closed (the "is open" check is false afterwards) and hands the caller the
   connection error. *)
WriteFailureClosesLink ==
    [][\A r \in Reqs :
          (~wfail[r] /\ wfail'[r]) => (~IsOpen(r))' /\ pc'[Req(r)] = "r500s"]_vars

(* C4: every write failure is eventually followed by the supervisor of that
   Link finding it not open and calling open_connection. *)
WriteFailureHealed ==
    \A r \in Reqs : wfail[r] ~> InOpenConnection(Sup(r))

(* While the supervisor is the only thread that has tried to open its Link:
   it has tried the port once in every health check that found the Link
   closed; a Link that is Open was opened by it, at the end of the check in
   which the port first opened. *)
SupervisorTriesEveryCheck ==
    \A c \in Comms : alone[c] =>
        /\ pc[Sup(c)] = "s103" => tries[c] = checks[c]
        /\ IsOpen(c) => /\ ser[c] = Serial(Sup(c))
                        /\ tries[c] = checks[c]
                        /\ checks[c] >= 1
                        /\ checks[c] <= 1 + (MaxFails - failsLeft)

(* C5: while the supervisor is the only thread opening its Link, it tries the
   port once in every health check that finds the Link closed, so that the
   Link is Open at the end of the check in which the port first opens (the
   Nth check, if the port opens on the Nth attempt); once Open it stays Open;
   and under fair scheduling the Link does become Open. *)
ReconnectConvergence ==
    /\ []SupervisorTriesEveryCheck
    /\ [][\A c \in Comms : alone[c] /\ IsOpen(c) => IsOpen(c)']_vars
    /\ \A c \in Comms :
          (alone[c] /\ pc[Sup(c)] # "unborn") ~> (IsOpen(c) \/ ~alone[c])

ReconnectConvergenceWitness ==
    \E c \in Comms : alone[c] /\ IsOpen(c) /\ checks[c] = 2 /\ pc[Sup(c)] = "s103"

(* C6 as claimed: a send_packet call that finds the Link closed makes exactly
   one open attempt, and if that attempt fails the caller gets the connection
   error and the call writes nothing. *)
SendClosedOneAttempt ==
    \A r \in Reqs : Finished(r) /\ spCalled[r] =>
        /\ spAttempts[r] = 1
        /\ spFailed[r] => pc[Req(r)] = "r500s" /\ written[r] = <<>>

(* C6 as amended: the call makes at most one open attempt; whenever its
   recheck (line 120) finds the Link still not open, the caller gets the
   connection error and the call has written, and will write, nothing. *)
SendClosedAtMostOneAttempt ==
    /\ [](\A r \in Reqs : /\ spAttempts[r] <= 1
                          /\ spAttempts[r] > 0 => spCalled[r]
                          /\ pc[Req(r)] = "r500s" /\ ~wfail[r] =>
                                wtries[r] = 0 /\ written[r] = <<>>)
    /\ [][\A r \in Reqs :
             pc[Req(r)] = "sp120" /\ ser[r] = None /\ pc'[Req(r)] # "sp120" =>
                pc'[Req(r)] = "r500s" /\ written'[r] = <<>> /\ ~wfail'[r]]_vars

SendClosedWitness ==
    \E r \in Reqs : /\ pc[Req(r)] = "r500s" /\ spCalled[r] /\ spFailed[r]
                    /\ spAttempts[r] = 1 /\ written[r] = <<>>

(* C7: a send_packet call that returns normally has made exactly one write,
   of the bytes of the packet built for its command, on an open Serial
   object; no call writes more than once. *)
WritesPacketOnce ==
    \A r \in Reqs :
        /\ Len(written[r]) <= 1
        /\ pc[Req(r)] = "r200" =>
              /\ Len(written[r]) = 1
              /\ wtries[r] = 1
              /\ is_open(written[r][1][1])
              /\ written[r][1][2] =
                    FromHex(build_packet(req[r].address, OPEN, req[r].door_number))

WritesPacketOnceWitness ==
    \E r \in Reqs :
        /\ pc[Req(r)] = "r200"
        /\ Len(written[r]) = 1
        /\ written[r][1][1] = ser[r]
        /\ written[r][1][2] = <<243, 0, 7, 1, 17, 1, 0, 0, 1, 23>>

(* C8: bytes reach a Link only in the write step of a send_packet call, and
   they are that call's own packet; a command is put to the wire at most
   once; after its request has ended, in success or in error, nothing of it
   is written any more. *)
NoRetryBacklog ==
    /\ [](\A r \in Reqs : wtries[r] <= 1 /\ Len(written[r]) <= wtries[r])
    /\ [](written[0] = <<>>)
    /\ [][\A r \in Reqs :
             written'[r] # written[r] =>
                /\ pc[Req(r)] = "sp129"
                /\ written'[r] = Append(written[r], <<ser[r], FromHex(pkt[r])>>)]_vars
    /\ [][\A r \in Reqs :
             Finished(r) => Finished(r)' /\ written'[r] = written[r]
                            /\ wtries'[r] = wtries[r]]_vars

NoRetryBacklogWitness ==
    \E r \in Reqs : pc[Req(r)] = "r500s" /\ wfail[r] /\ written[r] = <<>>
                    /\ pc[Sup(r)] = "s103b"

(* Where a thread goes when an exception leaves its outermost frame. *)
RaiseTargets == {"crashed", "s_dead", "r500s", "r500u"}

(* C9: no step of open_connection raises to its caller; the step that ends a
   successful open returns with the Link Open, the step that ends a failed
   open returns with ser = None. *)
OpenConnectionNeverRaises ==
    [][\A t \in Threads :
          /\ InOpenConnection(t) => pc'[t] \notin RaiseTargets
          /\ pc[t] = "oc94s" /\ pc'[t] # "oc94s" =>
                pc'[t] = ret[t] /\ IsOpen(Comm(t))'
          /\ pc[t] = "oc98" /\ pc'[t] # "oc98" =>
                pc'[t] = ret[t] /\ ser'[Comm(t)] = None]_vars

OpenConnectionFailedWitness ==
    \E c \in Comms : /\ pc[Sup(c)] = "s103" /\ tries[c] = 1 /\ checks[c] = 1
                     /\ alone[c] /\ ser[c] = None /\ failsLeft < MaxFails

(* C10: the process ends only if the port open tried by the main path
   failed. *)
ExitOnlyIfStartupFailed ==
    pc[Main] \in {"exit1", "crashed"} => startup = "fail"

(* The reconnect threads that have been started and have not died. *)
RunningSupervisors == {c \in Comms : pc[Sup(c)] \notin {"unborn", "s_dead"}}

(* C11: exactly one reconnect supervisor thread runs in the process, however
   many open-door requests have been made. *)
OneSupervisor == Cardinality(RunningSupervisors) = 1

(* A request that has arrived. *)
Arrived(r) == pc[Req(r)] # "idle"

(* C12: for a door number outside 0..255 no packet is produced and nothing
   is written to the Link. *)
DoorOutOfRangeRejected ==
    \A r \in Reqs :
        Arrived(r) /\ req[r].door_number \notin 0..255 =>
            pkt[r] = <<>> /\ written[r] = <<>>

(* C13: for an address that is not exactly two hex digits no packet is
   produced and nothing is written to the Link. *)
AddressNotOneByteRejected ==
    \A r \in Reqs :
        Arrived(r) /\ ~(/\ Len(req[r].address) = 2
                        /\ \A i \in 1..Len(req[r].address) :
                              IsHexChar(req[r].address[i])) =>
            pkt[r] = <<>> /\ written[r] = <<>>

(* Bit i of the bytes of s, folded: 1 iff an odd number of them has it set. *)
ParityBit(s, i) ==
    Cardinality({k \in 1..Len(s) : (s[k] \div (2 ^ i)) % 2 = 1}) % 2

(* The XOR of the bytes of s, bit by bit. *)
XorOfBytes(s) ==
    ParityBit(s, 0) + 2 * ParityBit(s, 1) + 4 * ParityBit(s, 2)
    + 8 * ParityBit(s, 3) + 16 * ParityBit(s, 4) + 32 * ParityBit(s, 5)
    + 64 * ParityBit(s, 6) + 128 * ParityBit(s, 7)

HexString(s, n) == Len(s) = n /\ \A i \in 1..n : IsHexChar(s[i])

(* A direct call with a one-byte address, a two-byte command code and a door
   number of 0..255 has returned. *)
ValidCallDone ==
    /\ result # NoResult
    /\ HexString(args.address, 2)
    /\ HexString(args.command_code, 4)
    /\ args.door_number \in 0..255

(* C14: for every valid (address, command code, door number 0..255) the
   packet build_packet returns is the byte 0xF3, then the payload bytes
   length | command code | address | return code | argument, then one byte
   that is the XOR of exactly those payload bytes. *)
ChecksumCorrect ==
    ValidCallDone =>
        /\ result # ValueError
        /\ ~FromHexRaises(result)
        /\ LET bytes == FromHex(result)
               payload == <<0, 7>> \o FromHex(args.command_code)
                          \o FromHex(args.address) \o <<0, 0>>
                          \o <<args.door_number>>
           IN  /\ Len(bytes) = 10
               /\ bytes[1] = 243
               /\ SubSeq(bytes, 2, 9) = payload
               /\ bytes[10] = XorOfBytes(payload)

ChecksumCorrectWitness ==
    /\ args = [address |-> <<"f", "1">>,
               command_code |-> <<"a", "5", "f", "e">>,
               door_number |-> 254]
    /\ result = <<"f", "3", "0", "0", "0", "7", "a", "5", "f", "e",
                  "f", "1", "0", "0", "0", "0", "f", "e", "5", "3">>

(* Scenario 1: build_packet("01", OPEN, 1) has been called and has ended. *)
Scenario1Done ==
    /\ args = [address |-> <<"0", "1">>, command_code |-> OPEN, door_number |-> 1]
    /\ result # NoResult

Scenario1Frame ==
    <<"f", "3", "0", "0", "0", "7", "0", "1", "1", "1",
      "0", "1", "0", "0", "0", "0", "0", "1">>

(* C15 as claimed: in scenario 1 build_packet yields f30007011101000001
   followed by the LRC of the bytes 00 07 01 11 01 00 00 01, and that LRC
   is 1e. *)
Scenario1Lrc1e ==
    Scenario1Done =>
        /\ result = Scenario1Frame \o Format02x(calculate_lrc(<<0, 7, 1, 17, 1, 0, 0, 1>>))
        /\ calculate_lrc(<<0, 7, 1, 17, 1, 0, 0, 1>>) = 30
        /\ result = Scenario1Frame \o <<"1", "e">>

(* C15 as amended: in scenario 1 build_packet yields f30007011101000001
   followed by the LRC of the bytes 00 07 01 11 01 00 00 01, and that LRC
   is 17. *)
Scenario1Lrc17 ==
    Scenario1Done =>
        /\ result = Scenario1Frame \o Format02x(calculate_lrc(<<0, 7, 1, 17, 1, 0, 0, 1>>))
        /\ calculate_lrc(<<0, 7, 1, 17, 1, 0, 0, 1>>) = 23
        /\ XorOfBytes(<<0, 7, 1, 17, 1, 0, 0, 1>>) = 23
        /\ result = Scenario1Frame \o <<"1", "7">>

Scenario1Witness == Scenario1Done /\ Len(result) = 20

(* C16: a thread that evaluates the check of line 92 while the Link is Open
   makes no open attempt and leaves self.ser as it is: it goes on to the
   second operand and from there returns; and line 94 is entered only in a
   step that finds no Link, or a closed one. *)
OpenOnlyIfNotOpen ==
    [][\A t \in Threads :
          /\ pc[t] \in {"oc92", "oc92b"} /\ IsOpen(Comm(t)) /\ pc'[t] # pc[t] =>
                /\ pc'[t] = IF pc[t] = "oc92" THEN "oc92b" ELSE ret[t]
                /\ ser'[Comm(t)] = ser[Comm(t)]
                /\ failsLeft' = failsLeft
          /\ pc[t] # "oc94" /\ pc'[t] = "oc94" => ~IsOpen(Comm(t))]_vars

(* The open_connection call of line 191 has returned without having tried the
   port: the reconnect thread had opened the Link before. *)
OpenOnlyIfNotOpenWitness ==
    \E r \in Reqs : /\ pc[Req(r)] = "r192" /\ alone[r]
                    /\ IsOpen(r) /\ ser[r] = Serial(Sup(r))

(* C17 as claimed: the bytes written for a command are 0xF3 followed by the
   ASCII hex characters of payload and checksum. *)
WireIsAsciiHex ==
    \A r \in Reqs : \A i \in 1..Len(written[r]) :
        written[r][i][2] = AsciiHexWire(pkt[r])

(* C17 as amended: the bytes written for a command are the bytes the hex
   packet decodes to, two hex digits to the byte: 0xF3, then the payload
   bytes and the checksum byte in binary; half as many bytes as the packet
   has hex digits, and never its ASCII-hex form. *)
WireIsRawBinary ==
    \A r \in Reqs : \A i \in 1..Len(written[r]) :
        /\ written[r][i][2] = FromHex(pkt[r])
        /\ written[r][i][2][1] = 243
        /\ 2 * Len(written[r][i][2]) = Len(pkt[r])
        /\ written[r][i][2] # AsciiHexWire(pkt[r])

WireIsRawBinaryWitness ==
    \E r \in Reqs :
        /\ pkt[r] = <<"f", "3", "0", "0", "0", "7", "0", "1", "1", "1",
                      "0", "1", "0", "0", "0", "0", "0", "1", "1", "7">>
        /\ Len(written[r]) = 1
        /\ written[r][1][2] = <<243, 0, 7, 1, 17, 1, 0, 0, 1, 23>>
        /\ AsciiHexWire(pkt[r]) = <<243, 48, 48, 48, 55, 48, 49, 49, 49, 48, 49,
                                    48, 48, 48, 48, 48, 49, 49, 55>>

(* C18: the step that ends a failed open attempt never replaces an Open
   handle of its communicator by None. *)
FailedOpenKeepsOpenLink ==
    [][\A t \in Threads :
          pc[t] = "oc98" /\ pc'[t] # "oc98" /\ IsOpen(Comm(t)) =>
              ser'[Comm(t)] # None]_vars

(* Request r is inside send_packet (lines 116-133), the open_connection call
   of line 118 included. *)
InSendPacket(r) ==
    \/ pc[Req(r)] \in {"sp116", "sp116b", "sp120", "sp120b", "sp129"}
    \/ InOpenConnection(Req(r)) /\ ret[Req(r)] = "sp120"

(* C19: no step of send_packet finds self.ser cleared after it has passed a
   check of it, and so none raises anything but the serial connection
   error. *)
SendPacketOnlyConnectionError ==
    [][\A r \in Reqs : InSendPacket(r) => pc'[Req(r)] # "r500u"]_vars

(* C20: the assignment that ends a successful open never replaces a handle
   that is still open, so no open Serial object is left without a
   communicator referring to it. *)
OpenNeverOrphansHandle ==
    [][\A t \in Threads :
          pc[t] = "oc94s" /\ pc'[t] # "oc94s" => ~IsOpen(Comm(t))]_vars

====
